---- MODULE Spec2Model ----
(***************************************************************************)
(* Model of the text-detection pipeline: CTPN.predict (proposal filtering, *)
(* non-maximum suppression, text-line grouping), DenseNetOCR.predict       *)
(* (best-path decoding) and TextDetectionApp.detect (per-region rectify,   *)
(* recognise, collect).                                                    *)
(*                                                                         *)
(* Python indices are 0-based; At(seq, k) reads the element the source     *)
(* writes seq[k].  Angles are carried as the argument pair <<dy, dx>> of    *)
(* atan2, so that sin and cos are dy/sqrt(dx^2+dy^2) and dx/sqrt(dx^2+dy^2) *)
(* and every int() of the source is computed exactly in integers.          *)
(***************************************************************************)
EXTENDS Integers, Sequences, FiniteSets, TLC

VARIABLES
    pc,          \* "idle", "loop", "done", "ocr_done", "ctpn_done"
    img,         \* img.shape[:2] = <<height, width>> of the source image
    adjust,      \* detect's adjust flag
    text_recs,   \* the regions ctpn.predict returned to detect
    index,       \* the loop position of detect (0-based)
    results,     \* detect's result map: index -> <<rec, text>>
    log,         \* one record per finished loop iteration (its locals)
    image,       \* DenseNetOCR.predict: size <<height, width>> of its input
    argmax,      \* DenseNetOCR.predict: per-timestep argmax of y_pred
    ocr_out,     \* DenseNetOCR.predict: the returned pair <<out, im>>
    bbox,        \* CTPN.predict: decoded, clipped boxes <<x1, y1, x2, y2>>
    cls_prod,    \* CTPN.predict: foreground score of each box, in tenths
    proposals,   \* CTPN.predict: select_anchor handed to nms
    scores,      \* CTPN.predict: select_score handed to nms
    keep,        \* CTPN.predict: indices nms kept
    select_anchor, \* CTPN.predict: the boxes handed to get_text_lines
    tp_groups    \* the chains get_text_lines grouped them into

vars == <<pc, img, adjust, text_recs, index, results, log,
          image, argmax, ocr_out,
          bbox, cls_prod, proposals, scores, keep, select_anchor, tp_groups>>

detectVars == <<img, adjust, text_recs, index, results, log>>
ocrVars == <<image, argmax, ocr_out>>
ctpnVars == <<bbox, cls_prod, proposals, scores, keep, select_anchor, tp_groups>>

---------------------------------------------------------------------------
(* Bounds of the model *)

ImgH == 12
ImgW == 16
MaxRegions == 3
NumClasses == 3
MaxT == 4
MaxProposals == 4

---------------------------------------------------------------------------
(* Arithmetic helpers *)

Max(a, b) == IF a >= b THEN a ELSE b
Min(a, b) == IF a <= b THEN a ELSE b
Abs(a) == IF a >= 0 THEN a ELSE -a

At(seq, k) == seq[k + 1]

\* int(d * 0.1), int(d * 0.2): int() truncates toward zero
TruncDiv(a, b) == IF a >= 0 THEN a \div b ELSE -((-a) \div b)

\* floor(n / sqrt(h2)) and ceil(n / sqrt(h2)) for n >= 0, h2 >= 1
FloorDivSqrt(n, h2) ==
    CHOOSE m \in 0..n : m * m * h2 <= n * n /\ (m + 1) * (m + 1) * h2 > n * n
CeilDivSqrt(n, h2) ==
    CHOOSE m \in 0..n : m * m * h2 >= n * n
                        /\ (m = 0 \/ (m - 1) * (m - 1) * h2 < n * n)

\* int(k + n / sqrt(h2)) for integers k, n
IntOf(k, n, h2) ==
    LET fl == IF n >= 0 THEN FloorDivSqrt(n, h2) ELSE -CeilDivSqrt(-n, h2)
        ce == IF n >= 0 THEN CeilDivSqrt(n, h2) ELSE -FloorDivSqrt(-n, h2)
    IN  IF k + fl >= 0 THEN k + fl ELSE k + ce

\* len(range(L)[a:b]): the length of a Python slice of a dimension of size L
SliceLen(a, b, L) ==
    LET s == IF a < 0 THEN Max(a + L, 0) ELSE Min(a, L)
        e == IF b < 0 THEN Max(b + L, 0) ELSE Min(b, L)
    IN  Max(0, e - s)

RECURSIVE SortedSeq(_)
SortedSeq(S) ==
    IF S = {} THEN << >>
    ELSE LET m == CHOOSE x \in S : \A y \in S : x <= y
         IN  <<m>> \o SortedSeq(S \ {m})

Idx(seq, idxs) == [k \in 1..Len(idxs) |-> seq[idxs[k]]]

---------------------------------------------------------------------------
(* DenseNetOCR.predict *)

\* the CTC blank is the last class (K.ctc_decode, greedy)
Blank == NumClasses - 1

Alphabet == <<"a", "b", "c", "d", "e", "f", "g", "h">>

\* the dictionary load_dict returns: one character per class index
id_to_char == [x \in 0..(NumClasses - 1) |-> Alphabet[x + 1]]

\* every argmax sequence of at most MaxT timesteps
ArgmaxSeqs == UNION {[1..t -> 0..(NumClasses - 1)] : t \in 0..MaxT}

\* the greedy decoder's pass over the timesteps: a class is emitted when it
\* is not the blank and differs from the class of the previous timestep
RECURSIVE ctc_greedy(_, _)
ctc_greedy(y, prev) ==
    IF y = << >> THEN << >>
    ELSE (IF Head(y) # Blank /\ Head(y) # prev THEN <<Head(y)>> ELSE << >>)
         \o ctc_greedy(Tail(y), Head(y))

\* a decoder that remembers the last emitted class instead of the last
\* timestep's class
RECURSIVE ctc_greedy_sticky(_, _)
ctc_greedy_sticky(y, prev) ==
    IF y = << >> THEN << >>
    ELSE IF Head(y) # Blank /\ Head(y) # prev
         THEN <<Head(y)>> \o ctc_greedy_sticky(Tail(y), Head(y))
         ELSE ctc_greedy_sticky(Tail(y), prev)

ctc_decode_sticky(y) == ctc_greedy_sticky(y, -1)

ctc_decode(y) == ctc_greedy(y, -1)

\* u''.join([id_to_char[x] for x in out[0]])
join_chars(ids) == [k \in 1..Len(ids) |-> id_to_char[ids[k]]]

\* the resized strip: height 32, width int(w / (h / 32))
resize32(size) == <<32, (32 * size[2]) \div size[1]>>

\* DenseNetOCR.predict(image, id_to_char) returns the pair (out, im)
ocr_predict(size, y) == <<join_chars(ctc_decode(y)), resize32(size)>>

---------------------------------------------------------------------------
(* TextDetectionApp.detect and dumpRotateImage *)

\* a region as CTPN.predict draws it: top-left, top-right, bottom-left,
\* bottom-right
TopLeft(rec) == <<At(rec, 0), At(rec, 1)>>
TopRight(rec) == <<At(rec, 2), At(rec, 3)>>
BottomLeft(rec) == <<At(rec, 4), At(rec, 5)>>
BottomRight(rec) == <<At(rec, 6), At(rec, 7)>>

Quad(x0, x1, ytl, ytr, hgt) ==
    <<x0, ytl, x1, ytr, x0, ytl + hgt, x1, ytr + hgt>>

\* the regions the detection stage may return
RecCandidates ==
    { Quad(3, 13, 2, 2, 3),     \* zero tilt
      Quad(4, 13, 0, 0, 3),     \* zero tilt on the image's first row
      Quad(3, 13, 2, 4, 3),     \* tilted down
      Quad(3, 5, 1, 7, 3),      \* steep
      Quad(3, 13, 3, 8, 3),     \* tilted down by more than 5 px
      Quad(3, 13, 8, 2, 3),     \* tilted up
      Quad(3, 15, 6, 11, 1) }   \* reaching the last column and row

RecSeqs == UNION {[1..n -> RecCandidates] : n \in 0..MaxRegions}

\* what the recognition network may answer inside detect
StubSeqs ==
    { <<Blank, Blank>>, <<0, 0, Blank, 0>>, <<0, 1>> }

xlength(rec) == TruncDiv(At(rec, 2) - At(rec, 0), 10)
ylength(rec) == TruncDiv(At(rec, 3) - At(rec, 1), 5)

pt1(rec, adj, shape) ==
    IF adj THEN <<Max(1, At(rec, 0) - xlength(rec)), Max(1, At(rec, 1) - ylength(rec))>>
    ELSE <<Max(1, At(rec, 0)), Max(1, At(rec, 1))>>
pt2(rec, adj, shape) == <<At(rec, 2), At(rec, 1)>>
pt3(rec, adj, shape) ==
    IF adj THEN <<Min(At(rec, 2) + xlength(rec), shape[2] - 2),
                  Min(shape[1] - 2, At(rec, 3) + ylength(rec))>>
    ELSE <<Min(At(rec, 2), shape[2] - 2), Min(shape[1] - 2, At(rec, 3))>>
pt4(rec, adj, shape) == <<At(rec, 0), At(rec, 3)>>

\* degrees(atan2(dy, dx)), kept as <<dy, dx>>; atan2(0, 0) = 0
Atan2(dy, dx) == IF dy = 0 /\ dx = 0 THEN <<0, 1>> ELSE <<dy, dx>>

degree(rec, adj, shape) ==
    Atan2(pt2(rec, adj, shape)[2] - pt1(rec, adj, shape)[2],
          pt2(rec, adj, shape)[1] - pt1(rec, adj, shape)[1])

\* the shape <<rows, cols>> of the crop dumpRotateImage returns.  With
\* h = sqrt(dx^2 + dy^2), cos = dx / h and sin = dy / h the matrix of
\* cv2.getRotationMatrix2D about (cx, cy), shifted by (tx, ty), maps p to
\*   x' = cx + tx + (dx (p.x - cx) + dy (p.y - cy)) / h
\*   y' = cy + ty + (dx (p.y - cy) - dy (p.x - cx)) / h
\* and int() of these is taken exactly.  The source computes them in double
\* precision, which agrees unless a value is an exact integer of a rotated
\* point or dx <= 0; no region of RecCandidates is such a case.
dumpRotateImage(shape, deg, p1, p3) ==
    LET height == shape[1]
        width == shape[2]
        dy == deg[1]
        dx == deg[2]
        h2 == dx * dx + dy * dy
        heightNew == FloorDivSqrt(width * Abs(dy) + height * Abs(dx), h2)
        widthNew == FloorDivSqrt(height * Abs(dy) + width * Abs(dx), h2)
        cx == width \div 2
        cy == height \div 2
        tx == (widthNew - width) \div 2
        ty == (heightNew - height) \div 2
        X(p) == IntOf(cx + tx, dx * (p[1] - cx) + dy * (p[2] - cy), h2)
        Y(p) == IntOf(cy + ty, dx * (p[2] - cy) - dy * (p[1] - cx), h2)
        ydim == heightNew
        xdim == widthNew
    IN  << SliceLen(Max(1, Y(p1)), Min(ydim - 1, Y(p3)), ydim),
           SliceLen(Max(1, X(p1)), Min(xdim - 1, X(p3)), xdim) >>

partImg(rec, adj, shape) ==
    dumpRotateImage(shape, degree(rec, adj, shape),
                    pt1(rec, adj, shape), pt3(rec, adj, shape))

\* a filter that forgets the height > width test
IsAbnormalNoRatio(part) == part[1] < 1 \/ part[2] < 1

\* the test of line 79
IsAbnormal(part) == part[1] < 1 \/ part[2] < 1 \/ part[1] > part[2]

\* a collector that numbers the entries consecutively
RecordDense(res, i, rec, text) ==
    (Cardinality(DOMAIN res) :> <<rec, text>>) @@ res

\* results[index] = [rec]; results[index].append(text)
Record(res, i, rec, text) == (i :> <<rec, text>>) @@ res

\* a loop that stops at the first abnormal crop
Break(i, n) == n

\* continue: on to the next region
Continue(i, n) == i + 1

Locals(i, rec, adj, shape, called, text) ==
    [ index |-> i, rec |-> rec,
      pt1 |-> pt1(rec, adj, shape), pt2 |-> pt2(rec, adj, shape),
      pt3 |-> pt3(rec, adj, shape), pt4 |-> pt4(rec, adj, shape),
      degree |-> degree(rec, adj, shape),
      partImg |-> partImg(rec, adj, shape),
      called |-> called, text |-> text ]

NoText == <<"none">>

---------------------------------------------------------------------------
(* CTPN.predict *)

\* cls_prod[0, :, 1] > 0.7, scores counted in tenths
ScoreThreshTenths == 7
\* utils.filter_bbox(select_anchor, 16)
MinSize == 16
\* utils.nms(nmsbox, 0.3)
NmsThreshTenths == 3

\* the boxes the decoder may hand over: columns 16 px wide
CandidateBoxes ==
    << <<0, 10, 15, 30>>, <<16, 10, 31, 30>>, <<32, 12, 47, 32>>,
       <<48, 10, 63, 30>>, <<16, 14, 31, 34>>, <<16, 26, 31, 46>>,
       <<0, 40, 15, 48>>, <<32, 40, 47, 60>> >>

ScoreValues == {6, 8, 9}

BoxW(b) == b[3] - b[1] + 1
BoxH(b) == b[4] - b[2] + 1

\* np.where(cls_prod[0, :, 1] > 0.7)[0]
fg(sc) == SortedSeq({i \in 1..Len(sc) : sc[i] > ScoreThreshTenths})

\* ProposalFilter (b): boxes narrower or lower than minsize are discarded
filter_bbox(boxes, minsize) ==
    SortedSeq({i \in 1..Len(boxes) :
                  BoxW(boxes[i]) >= minsize /\ BoxH(boxes[i]) >= minsize})

Inter(a, b) ==
    Max(0, Min(a[3], b[3]) - Max(a[1], b[1]) + 1)
    * Max(0, Min(a[4], b[4]) - Max(a[2], b[2]) + 1)
Area(b) == BoxW(b) * BoxH(b)

\* IoU(a, b) > tn / 10
IoUExceeds(a, b, tn) ==
    10 * Inter(a, b) > tn * (Area(a) + Area(b) - Inter(a, b))

\* descending score, ties by original index
RECURSIVE ScoreOrder(_, _)
ScoreOrder(S, sc) ==
    IF S = {} THEN << >>
    ELSE LET i == CHOOSE x \in S :
                     \A y \in S : sc[x] > sc[y] \/ (sc[x] = sc[y] /\ x <= y)
         IN  <<i>> \o ScoreOrder(S \ {i}, sc)

\* NonMaxSuppressor: emit the best remaining box, drop what overlaps it
RECURSIVE nms_loop(_, _, _)
nms_loop(boxes, order, tn) ==
    IF order = << >> THEN << >>
    ELSE LET i == Head(order)
             Far(j) == ~IoUExceeds(boxes[i], boxes[j], tn)
         IN  <<i>> \o nms_loop(boxes, SelectSeq(Tail(order), Far), tn)

nms(boxes, sc, tn) == nms_loop(boxes, ScoreOrder(1..Len(boxes), sc), tn)

\* a call that passes 0.7 where the source passes 0.3
nms_keep_loose(boxes, sc) == nms(boxes, sc, ScoreThreshTenths)

\* keep = utils.nms(nmsbox, 0.3)
nms_keep(boxes, sc) == nms(boxes, sc, NmsThreshTenths)

\* a hand-over that forgets to select the kept boxes
text_line_input_all(boxes, kp) == boxes

\* select_anchor = select_anchor[keep]
text_line_input(boxes, kp) == Idx(boxes, kp)

\* LineGraphConnector
MaxHorizontalGap == 32
MinVOverlapTenths == 7
MinSizeSimTenths == 7
MaxSizeSimTenths == 13

VInter(a, b) == Max(0, Min(a[4], b[4]) - Max(a[2], b[2]) + 1)
VUnion(a, b) == Max(a[4], b[4]) - Min(a[2], b[2]) + 1

\* a -> b: b starts right of a within the gap, the vertical extents overlap
\* and the heights are comparable
LinkEligible(a, b) ==
    /\ b[1] > a[1]
    /\ b[1] - a[3] <= MaxHorizontalGap
    /\ 10 * VInter(a, b) >= MinVOverlapTenths * VUnion(a, b)
    /\ 10 * BoxH(b) >= MinSizeSimTenths * BoxH(a)
    /\ 10 * BoxH(b) <= MaxSizeSimTenths * BoxH(a)

\* combined overlap and proximity
LinkScore(a, b) == VInter(a, b) - (b[1] - a[3])

\* 0 stands for "no candidate"
best_right(boxes, i) ==
    LET C == {j \in 1..Len(boxes) : LinkEligible(boxes[i], boxes[j])}
        V(j) == LinkScore(boxes[i], boxes[j])
    IN  IF C = {} THEN 0
        ELSE CHOOSE j \in C : \A k \in C : V(j) > V(k) \/ (V(j) = V(k) /\ j <= k)

best_left(boxes, j) ==
    LET C == {i \in 1..Len(boxes) : LinkEligible(boxes[i], boxes[j])}
        V(i) == LinkScore(boxes[i], boxes[j])
    IN  IF C = {} THEN 0
        ELSE CHOOSE i \in C : \A k \in C : V(i) > V(k) \/ (V(i) = V(k) /\ i <= k)

\* the mutual-best-match edge out of i
successor(boxes, i) ==
    LET j == best_right(boxes, i)
    IN  IF j # 0 /\ best_left(boxes, j) = i THEN j ELSE 0

RECURSIVE chain_from(_, _)
chain_from(boxes, i) ==
    <<i>> \o (IF successor(boxes, i) = 0 THEN << >>
              ELSE chain_from(boxes, successor(boxes, i)))

group_text_proposals(boxes) ==
    LET heads == SortedSeq({i \in 1..Len(boxes) :
                               \A k \in 1..Len(boxes) : successor(boxes, k) # i})
    IN  [k \in 1..Len(heads) |-> chain_from(boxes, heads[k])]

---------------------------------------------------------------------------
Init ==
    /\ pc = "idle"
    /\ img = <<ImgH, ImgW>>
    /\ adjust = FALSE
    /\ text_recs = << >>
    /\ index = 0
    /\ results = << >>
    /\ log = << >>
    /\ image = <<0, 0>>
    /\ argmax = << >>
    /\ ocr_out = << >>
    /\ bbox = << >>
    /\ cls_prod = << >>
    /\ proposals = << >>
    /\ scores = << >>
    /\ keep = << >>
    /\ select_anchor = << >>
    /\ tp_groups = << >>

\* detect, lines 56-59: the detection stage answers, the loop starts
DetectStart ==
    /\ pc = "idle"
    /\ \E adj \in BOOLEAN, recs \in RecSeqs :
          /\ adjust' = adj
          /\ text_recs' = recs
    /\ index' = 0
    /\ results' = << >>
    /\ log' = << >>
    /\ pc' = "loop"
    /\ UNCHANGED <<img, ocrVars, ctpnVars>>

\* line 61: the loop has a region left; line 79: its crop is abnormal
InLoop == pc = "loop" /\ index < Len(text_recs)
CropAbnormal == IsAbnormal(partImg(At(text_recs, index), adjust, img))

\* detect, lines 61-80: an iteration whose crop is abnormal
DetectSkip ==
    /\ InLoop
    /\ CropAbnormal
    /\ LET rec == At(text_recs, index)
       IN  log' = Append(log, Locals(index, rec, adjust, img, FALSE, NoText))
    /\ index' = Continue(index, Len(text_recs))
    /\ UNCHANGED <<pc, img, adjust, text_recs, results, ocrVars, ctpnVars>>

\* detect, lines 61-87: an iteration whose crop goes to the recognizer
DetectRecognize ==
    /\ InLoop
    /\ ~CropAbnormal
    /\ \E y \in StubSeqs :
          LET rec == At(text_recs, index)
              text == ocr_predict(partImg(rec, adjust, img), y)
          IN  /\ results' = IF Len(text) > 0
                            THEN Record(results, index, rec, text)
                            ELSE results
              /\ log' = Append(log, Locals(index, rec, adjust, img, TRUE, text))
    /\ index' = index + 1
    /\ UNCHANGED <<pc, img, adjust, text_recs, ocrVars, ctpnVars>>

\* detect, line 89
DetectReturn ==
    /\ pc = "loop"
    /\ index >= Len(text_recs)
    /\ pc' = "done"
    /\ UNCHANGED <<detectVars, ocrVars, ctpnVars>>

\* DenseNetOCR.predict called on its own
OcrPredict ==
    /\ pc = "idle"
    /\ \E size \in {<<2, 10>>, <<3, 3>>}, y \in ArgmaxSeqs :
          /\ image' = size
          /\ argmax' = y
          /\ ocr_out' = ocr_predict(size, y)
    /\ pc' = "ocr_done"
    /\ UNCHANGED <<detectVars, ctpnVars>>

\* CTPN.predict, lines 152-172
CtpnPredict ==
    /\ pc = "idle"
    /\ \E S \in SUBSET (1..Len(CandidateBoxes)) :
          /\ Cardinality(S) <= MaxProposals
          /\ \E sc \in [1..Cardinality(S) -> ScoreValues] :
                LET boxes == Idx(CandidateBoxes, SortedSeq(S))
                    sel == fg(sc)
                    anchor1 == Idx(boxes, sel)
                    score1 == Idx(sc, sel)
                    keep_index == filter_bbox(anchor1, MinSize)
                    anchor2 == Idx(anchor1, keep_index)
                    score2 == Idx(score1, keep_index)
                    kp == nms_keep(anchor2, score2)
                    anchor3 == text_line_input(anchor2, kp)
                IN  /\ bbox' = boxes
                    /\ cls_prod' = sc
                    /\ proposals' = anchor2
                    /\ scores' = score2
                    /\ keep' = kp
                    /\ select_anchor' = anchor3
                    /\ tp_groups' = group_text_proposals(anchor3)
    /\ pc' = "ctpn_done"
    /\ UNCHANGED <<detectVars, ocrVars>>

Next ==
    \/ DetectStart
    \/ DetectSkip
    \/ DetectRecognize
    \/ DetectReturn
    \/ OcrPredict
    \/ CtpnPredict

Spec == Init /\ [][Next]_vars

---------------------------------------------------------------------------
(* Properties *)

Entries == {log[k] : k \in 1..Len(log)}

\* the decoded string of a recorded entry (text is the pair (out, im))
DecodedOf(text) == text[1]

\* a region with a horizontal top edge, positive height, wider than high
ZeroTiltLine(rec) ==
    /\ TopLeft(rec)[2] = TopRight(rec)[2]
    /\ TopRight(rec)[1] > TopLeft(rec)[1]
    /\ BottomLeft(rec)[2] > TopLeft(rec)[2]
    /\ BottomRight(rec)[2] > TopRight(rec)[2]
    /\ TopRight(rec)[1] - TopLeft(rec)[1] > BottomLeft(rec)[2] - TopLeft(rec)[2]

\* the recognition stub answered a non-empty string whenever it was asked
StubNonEmpty == \A e \in Entries : e.called => Len(DecodedOf(e.text)) > 0

\* C1: when the detection stage yields exactly one zero-tilt text line and
\* the recognition stub always answers a non-empty string, detect returns a
\* map with exactly one entry, whose text is non-empty (either adjust mode).
C1_EndToEndOneRegion ==
    (pc = "done" /\ Len(text_recs) = 1 /\ ZeroTiltLine(text_recs[1]) /\ StubNonEmpty)
    => /\ Cardinality(DOMAIN results) = 1
       /\ \A i \in DOMAIN results : Len(DecodedOf(results[i][2])) > 0

\* C2: no entry of the result map carries an empty decoded string; a region
\* whose recognition output decodes to "" is omitted.
C2_NoEmptyText ==
    /\ \A i \in DOMAIN results : Len(DecodedOf(results[i][2])) > 0
    /\ \A e \in Entries :
          (e.called /\ Len(DecodedOf(e.text)) = 0) => e.index \notin DOMAIN results

\* C3: a region whose crop has height < 1, width < 1 or height > width is
\* not recorded and never reaches the recognition network; every recorded
\* region's crop has 1 <= height <= width.
C3_AbnormalCropsDropped ==
    \A e \in Entries :
        /\ (e.partImg[1] < 1 \/ e.partImg[2] < 1 \/ e.partImg[1] > e.partImg[2])
              => (~e.called /\ e.index \notin DOMAIN results)
        /\ (e.index \in DOMAIN results \/ e.called)
              => (1 <= e.partImg[1] /\ e.partImg[1] <= e.partImg[2])

C3_Witness ==
    /\ pc = "done"
    /\ \E e \in Entries : e.partImg[1] > e.partImg[2] /\ e.partImg[2] >= 1
                          /\ e.index \notin DOMAIN results
    /\ \E e \in Entries : e.partImg[1] < 1 /\ e.index \notin DOMAIN results
    /\ \E e \in Entries : e.index \in DOMAIN results

\* C4: every entry of the result map is keyed by its region's original
\* detection index, and the region stored under key i is the i-th detected
\* region; drops leave gaps and never renumber.
C4_KeyedByDetectionIndex ==
    /\ DOMAIN results \subseteq 0..(Len(text_recs) - 1)
    /\ \A i \in DOMAIN results : results[i][1] = At(text_recs, i)
    /\ DOMAIN results = {e.index : e \in {x \in Entries : x.called}}

C4_Witness ==
    /\ pc = "done"
    /\ Len(text_recs) = 2
    /\ DOMAIN results = {1}
    /\ text_recs[1] # text_recs[2]

\* C5: a failing region never aborts the loop: every iteration handles the
\* next region and advances the index by one (so the loop ends after
\* Len(text_recs) iterations), detect returns only after the last region,
\* and two regions with the same crop and the same recognition answer share
\* their fate.
C5_NoAbortIndependentRegions ==
    /\ index <= Len(text_recs)
    /\ Len(log) = index
    /\ \A k \in 1..Len(log) : log[k].index = k - 1 /\ log[k].rec = text_recs[k]
    /\ pc = "done" => index = Len(text_recs)
    /\ \A e1, e2 \in Entries :
          (e1.partImg = e2.partImg /\ e1.text = e2.text)
              => ((e1.index \in DOMAIN results) <=> (e2.index \in DOMAIN results))

C5_Witness ==
    /\ pc = "done"
    /\ Len(text_recs) = 2
    /\ ~log[1].called
    /\ log[2].called
    /\ 1 \in DOMAIN results

\* collapse each run of equal symbols, delete the blanks, map through the
\* dictionary
CollapseRuns(y) == Idx(y, SortedSeq({k \in 1..Len(y) : k = 1 \/ y[k] # y[k - 1]}))
DropBlanks(y) == LET NotBlank(c) == c # Blank IN SelectSeq(y, NotBlank)
BestPath(y) == join_chars(DropBlanks(CollapseRuns(y)))

\* C6: the decoded string equals collapse-runs, then delete-blanks, then the
\* dictionary; an all-blank sequence decodes to "" and [A, A, blank, A] to
\* "AA".
C6_BestPathDecoding ==
    pc = "ocr_done" =>
        /\ ocr_out[1] = BestPath(argmax)
        /\ (\A k \in 1..Len(argmax) : argmax[k] = Blank) => ocr_out[1] = << >>
        /\ argmax = <<0, 0, Blank, 0>> => ocr_out[1] = <<"a", "a">>

C6_Witness ==
    /\ pc = "ocr_done"
    /\ argmax = <<0, 0, Blank, 0>>
    /\ ocr_out[1] = <<"a", "a">>

\* C7: any two distinct boxes nms kept (threshold 0.3) have IoU <= 0.3; the
\* kept boxes come in descending score order and every dropped box overlaps
\* a kept box that ranks before it by more than 0.3.
C7_NmsKeptBoxesApart ==
    pc = "ctpn_done" =>
        /\ \A i, j \in 1..Len(select_anchor) :
              i # j => ~IoUExceeds(select_anchor[i], select_anchor[j], 3)
        /\ \A i, j \in 1..Len(keep) : i < j =>
              /\ keep[i] # keep[j]
              /\ scores[keep[i]] >= scores[keep[j]]
        /\ \A d \in (1..Len(proposals)) \ {keep[k] : k \in 1..Len(keep)} :
              \E k \in 1..Len(keep) :
                  /\ IoUExceeds(proposals[keep[k]], proposals[d], 3)
                  /\ scores[keep[k]] >= scores[d]

C7_Witness ==
    /\ pc = "ctpn_done"
    /\ Len(keep) < Len(proposals)
    /\ \E i, j \in 1..Len(select_anchor) :
          i # j /\ Inter(select_anchor[i], select_anchor[j]) > 0

Survivors == Idx(proposals, keep)

Isolated(boxes, i) ==
    \A j \in 1..Len(boxes) :
        ~LinkEligible(boxes[i], boxes[j]) /\ ~LinkEligible(boxes[j], boxes[i])

\* C8: the chains partition the proposals that survived nms: every survivor
\* lies in exactly one chain, no chain is empty, and a survivor with no
\* eligible neighbour is a chain of its own.
C8_ChainsPartition ==
    pc = "ctpn_done" =>
        /\ \A c \in 1..Len(tp_groups) :
              /\ tp_groups[c] # << >>
              /\ \A k \in 1..Len(tp_groups[c]) : tp_groups[c][k] \in 1..Len(Survivors)
        /\ \A i \in 1..Len(Survivors) :
              Cardinality({ck \in UNION {{<<c, k>> : k \in 1..Len(tp_groups[c])} :
                                          c \in 1..Len(tp_groups)} :
                              tp_groups[ck[1]][ck[2]] = i}) = 1
        /\ \A i \in 1..Len(Survivors) :
              Isolated(Survivors, i) => \E c \in 1..Len(tp_groups) : tp_groups[c] = <<i>>

C8_Witness ==
    /\ pc = "ctpn_done"
    /\ Len(keep) < Len(proposals)
    /\ \E c \in 1..Len(tp_groups) : Len(tp_groups[c]) >= 2
    /\ \E c \in 1..Len(tp_groups) :
          Len(tp_groups[c]) = 1 /\ Isolated(Survivors, tp_groups[c][1])

\* the corner moved outward by the loose-crop margin and clamped
LooseTopLeft(rec, adj) ==
    IF adj THEN <<Max(1, TopLeft(rec)[1] - xlength(rec)), Max(1, TopLeft(rec)[2] - ylength(rec))>>
    ELSE <<Max(1, TopLeft(rec)[1]), Max(1, TopLeft(rec)[2])>>
LooseBottomRight(rec, adj, shape) ==
    IF adj THEN <<Min(BottomRight(rec)[1] + xlength(rec), shape[2] - 2),
                  Min(shape[1] - 2, BottomRight(rec)[2] + ylength(rec))>>
    ELSE <<Min(BottomRight(rec)[1], shape[2] - 2), Min(shape[1] - 2, BottomRight(rec)[2])>>

\* C9: the crop corners detect hands to the rectifier are the quad's top-left
\* and bottom-right corners (moved outward by the margin, clamped).
C9_CropCornersTopLeftBottomRight ==
    \A e \in Entries :
        /\ e.pt1 = LooseTopLeft(e.rec, adjust)
        /\ e.pt3 = LooseBottomRight(e.rec, adjust, img)

\* two atan2 argument pairs that denote the same angle
SameAngle(a, b) == a[1] * b[2] = b[1] * a[2] /\ a[1] * b[1] + a[2] * b[2] > 0

\* C10: the angle handed to the rectifier is atan2(y_tr - y_tl, x_tr - x_tl);
\* a region with a horizontal top edge is rotated by 0 degrees in both modes.
C10_AngleOfTopEdge ==
    \A e \in Entries :
        /\ SameAngle(e.degree, Atan2(TopRight(e.rec)[2] - TopLeft(e.rec)[2],
                                     TopRight(e.rec)[1] - TopLeft(e.rec)[1]))
        /\ (TopLeft(e.rec)[2] = TopRight(e.rec)[2] /\ TopRight(e.rec)[1] > TopLeft(e.rec)[1])
              => SameAngle(e.degree, <<0, 1>>)

====
